---- MODULE Spec2Model ----
(***************************************************************************)
(* Model of app.py: the YouTubeDownloaderApp window, its debounce timer    *)
(* and the YtdlpWorker object whose methods it calls.                      *)
(*                                                                         *)
(* The worker object is moved to a QThread, but the window invokes its     *)
(* methods by plain Python calls (app.py:729, 757, 824), so they run on    *)
(* the calling thread.  Signals emitted there reach slots of the window    *)
(* (which lives on the same thread) by direct connection: the slot runs    *)
(* inside emit().  The model therefore has one control stack, the call     *)
(* stack of the interactive thread.  A frame is a call of a worker method  *)
(* (or a rejection notice); its pc is the blocking point it is waiting     *)
(* at: a collaborator call, or the nested event loop of a QMessageBox.     *)
(***************************************************************************)
EXTENDS Integers, Sequences, FiniteSets, TLC

\* ---------------------------------------------------------------- bounds
MaxBytes  == 3      \* downloaded_bytes a progress callback may report: 0..MaxBytes
KnownTotal == 2     \* the total a progress callback reports when it knows one
MaxHooks  == 1      \* progress callbacks per download run
MaxClicks == 1      \* clicks on Download waiting in the event queue
MaxBurst  == 2      \* text changes that restart a running debounce timer
TickStep  == 350    \* milliseconds by which one Tick advances time
MaxLabel  == 3      \* characters of a quality text given to download_video
MaxHostLabels == 4  \* labels of a host name given to _is_valid_youtube_url

\* ------------------------------------------------------------- constants
Interval == 700     \* _fetch_info_timer.setInterval(700)
Inactive == 0 - 1   \* timer_left of a QTimer that is not running

GuiThread    == "gui"
WorkerThread == "worker"

\* ------------------------------------------------------------------ URLs
\* A text of url_entry, already stripped, as QUrl reads it: whether it is
\* a valid URL, its host as a string (a sequence of pieces of text, "." is
\* the dot), and what follows the host.
Url(valid, host, rest) == [valid |-> valid, host |-> host, rest |-> rest]

UrlEmpty == Url(FALSE, <<>>, "")
UrlOther == Url(TRUE, <<"example", ".", "com">>, "/v")
UrlShort == Url(TRUE, <<"youtu", ".", "be">>, "/a")
UrlLong  == Url(TRUE, <<"www", ".", "youtube", ".", "com">>, "/watch?v=b")
UrlTexts == {UrlEmpty, UrlOther, UrlShort, UrlLong}

\* QUrl(url).isValid(): an empty QUrl is invalid.
QUrlIsValid(url) == url.valid

\* QUrl(url).host()
QUrlHost(url) == url.host

youtube_domains ==
    { <<"youtube", ".", "com">>, <<"www", ".", "youtube", ".", "com">>,
      <<"m", ".", "youtube", ".", "com">>,
      <<"youtu", ".", "be">>, <<"www", ".", "youtu", ".", "be">> }

\* str.endswith(suffix)
EndsWith(str, suffix) ==
    /\ Len(str) >= Len(suffix)
    /\ SubSeq(str, Len(str) - Len(suffix) + 1, Len(str)) = suffix

\* host.endswith(domain), without the dot in front of the domain.
EndsWithNoDot(host, domain) == EndsWith(host, domain)

\* host.endswith(f".{domain}")
EndsWithDot(host, domain) == EndsWith(host, <<".">> \o domain)

_is_valid_youtube_url(url) ==
    /\ QUrlIsValid(url)
    /\ \/ QUrlHost(url) \in youtube_domains
       \/ \E domain \in youtube_domains :
            /\ domain[1] # "www"
            /\ EndsWithDot(QUrlHost(url), domain)

\* info['webpage_url'] that extract_info returns for a URL: the long form.
WebpageUrl(url) ==
    IF url = UrlShort
    THEN Url(TRUE, <<"www", ".", "youtube", ".", "com">>, "/watch?v=a")
    ELSE url

\* ----------------------------------------------------------- directories
script_dir == "/app"
PathEmpty  == ""
PathNew    == "/new"
Paths      == {PathEmpty, script_dir, PathNew}

\* --------------------------------------------------------------- events
\* A signal emission of the worker: <<signal, payload>>.
Ev(signal, payload) == <<signal, payload>>
LogInfo    == Ev("log_message", "info")
LogWarning == Ev("log_message", "warning")
LogError   == Ev("log_message", "error")
Percent(p) == Ev("progress_update", p)
Finished   == Ev("operation_finished", 0)

VARIABLES
    url_text,            \* url_entry.text()
    output_path,         \* output_entry.text()
    dirs,                \* directories that exist on disk
    current_video_info,  \* <<>> for None, <<info>> otherwise
    timer_left,          \* ms until _fetch_info_timer is due, Inactive if stopped
    ui_enabled,          \* what set_ui_state last set on the widgets
    progress_bar,        \* progress_bar.value()
    progress_label,      \* the number shown in progress_label
    stack,               \* call stack of the interactive thread, top last
    clicks,              \* clicks on download_button not yet dispatched
    last,                \* what the slot run in this step decided, if it is one
                         \* of _schedule_fetch_info / _start_fetch_info_worker /
                         \* _start_download_worker
    done,                \* <<the run that returned in this step>>, else <<>>
    burst                \* text changes and timeouts of the current timer run

vars == <<url_text, output_path, dirs, current_video_info, timer_left, ui_enabled,
          progress_bar, progress_label, stack, clicks, last, done, burst>>

\* -------------------------------------------------------- stack helpers
Top == stack[Len(stack)]
Pop == SubSeq(stack, 1, Len(stack) - 1)
ReplaceTop(f) == [stack EXCEPT ![Len(stack)] = f]

NoticePcs == {"info_notice", "hook_notice", "download_notice", "reject_notice"}

\* The interactive thread is in an event loop: the main one, or the nested
\* one QMessageBox.critical runs until the notice is dismissed.
TopLevel == stack = <<>>
InNotice == stack # <<>> /\ Top.pc \in NoticePcs
LoopFree == TopLevel \/ InNotice

\* A plain Python method call runs on the thread of the caller, whatever
\* thread the QObject was moved to.
DirectCall(caller, affinity) == caller

Frame(op, pc, url, info, ev) ==
    [op |-> op, pc |-> pc, thread |-> DirectCall(GuiThread, WorkerThread),
     url |-> url, info |-> info, ev |-> ev, hooks |-> 0]

Handled(h, r) == [h |-> h, r |-> r]
Other == Handled("", "")

NoBurst == [n |-> 0, fires |-> 0, text |-> UrlEmpty, age |-> 0]

Init ==
    /\ url_text = UrlEmpty
    /\ output_path = script_dir
    /\ dirs = {script_dir}
    /\ current_video_info = <<>>
    /\ timer_left = Inactive
    /\ ui_enabled = TRUE
    /\ progress_bar = 0
    /\ progress_label = 0
    /\ stack = <<>>
    /\ clicks = <<>>
    /\ last = Other
    /\ done = <<>>
    /\ burst = NoBurst

\* ============================================================ the window

\* clear_preview(): the value it leaves in current_video_info.
clear_preview == <<>>

\* set_ui_state comparing with a misspelt state name.
set_ui_state_typo(state) == state = "enable"

\* set_ui_state(state): the enabled flag it gives the widgets.
set_ui_state(state) == state = "enabled"

\* start() called only when the timer is not running already.
QTimerStartIfIdle == IF timer_left >= 0 THEN timer_left ELSE Interval

\* QTimer.start() on the single-shot timer: (re)starts the full interval.
QTimerStart == Interval

\* stop() that leaves a running timer running.
QTimerStopIgnored == timer_left

\* QTimer.stop().
QTimerStop == Inactive

\* setSingleShot(True): the timer is not running after its timeout.
SingleShot == Inactive

\* _schedule_fetch_info(), slot of url_entry.textChanged.
_schedule_fetch_info ==
    IF _is_valid_youtube_url(url_text')
    THEN /\ timer_left' = QTimerStart
         /\ UNCHANGED current_video_info
         /\ burst' = IF timer_left = Inactive
                      THEN [n |-> 1, fires |-> 0, text |-> url_text', age |-> 0]
                      ELSE [burst EXCEPT !.n = @ + 1, !.text = url_text', !.age = 0]
         /\ last' = Handled("_schedule_fetch_info", "started")
    ELSE /\ timer_left' = QTimerStop
         /\ current_video_info' = clear_preview
         /\ burst' = NoBurst
         /\ last' = Handled("_schedule_fetch_info",
                            IF timer_left >= 0 THEN "cancelled" ELSE "stopped")

\* The user edits url_entry.  Widgets take input only from the main event
\* loop and only while enabled; a due timer event is dispatched first.
UrlEdited(text) ==
    /\ TopLevel /\ ui_enabled
    /\ timer_left # 0
    /\ text # url_text
    /\ timer_left > 0 /\ _is_valid_youtube_url(text) => burst.n < MaxBurst
    /\ url_text' = text
    /\ _schedule_fetch_info
    /\ done' = <<>>
    /\ UNCHANGED <<output_path, dirs, ui_enabled, progress_bar, progress_label,
                   stack, clicks>>

\* The user picks another output directory (browse_output_path and the
\* Downloads / Desktop buttons, or typing into output_entry).
OutputEdited(path) ==
    /\ TopLevel /\ ui_enabled
    /\ path # output_path
    /\ output_path' = path
    /\ last' = Other
    /\ done' = <<>>
    /\ UNCHANGED <<url_text, dirs, current_video_info, timer_left, ui_enabled,
                   progress_bar, progress_label, stack, clicks, burst>>

\* clear_fields(): url_entry.clear() emits textChanged when the text was
\* not empty already; clear_preview() and the progress reset are
\* unconditional.
clear_fields ==
    /\ TopLevel /\ ui_enabled
    /\ url_text' = UrlEmpty
    /\ output_path' = script_dir
    /\ current_video_info' = clear_preview
    /\ IF url_text # UrlEmpty
       THEN timer_left' = QTimerStop /\ burst' = NoBurst
       ELSE UNCHANGED <<timer_left, burst>>
    /\ progress_bar' = 0
    /\ progress_label' = 0
    /\ last' = Other
    /\ done' = <<>>
    /\ UNCHANGED <<dirs, ui_enabled, stack, clicks>>

\* Time passes; it also passes while the interactive thread is blocked.
Tick ==
    /\ timer_left > 0
    /\ timer_left' = IF timer_left > TickStep THEN timer_left - TickStep ELSE 0
    /\ burst' = [burst EXCEPT !.age = IF @ + TickStep < Interval THEN @ + TickStep
                                      ELSE Interval]
    /\ done' = <<>>
    /\ last' = Other
    /\ UNCHANGED <<url_text, output_path, dirs, current_video_info, ui_enabled,
                   progress_bar, progress_label, stack, clicks>>

\* ---------------------------------------------------- metadata fetch

\* The early return without the comparison with the stored webpage_url.
FetchSuppressedNoUrlCheck(url) == ~_is_valid_youtube_url(url)

\* The early return of _start_fetch_info_worker.
FetchSuppressed(url) ==
    \/ ~_is_valid_youtube_url(url)
    \/ /\ current_video_info # <<>>
       /\ current_video_info[1].webpage_url = url

\* _fetch_info_timer.timeout -> _start_fetch_info_worker().  The timer is
\* single-shot; its event is dispatched by whichever event loop is running.
_start_fetch_info_worker ==
    /\ LoopFree
    /\ timer_left = 0
    /\ timer_left' = SingleShot
    /\ burst' = [burst EXCEPT !.fires = @ + 1]
    /\ IF FetchSuppressed(url_text)
       THEN /\ last' = Handled("_start_fetch_info_worker", "suppressed")
            /\ UNCHANGED <<current_video_info, ui_enabled, stack>>
       ELSE /\ current_video_info' = clear_preview
            /\ ui_enabled' = set_ui_state("disabled")
            /\ stack' = Append(stack, Frame("fetch_video_info", "extract_info",
                                            url_text, <<>>, <<>>))
            /\ last' = Handled("_start_fetch_info_worker", "dispatched")
    /\ done' = <<>>
    /\ UNCHANGED <<url_text, output_path, dirs, progress_bar, progress_label,
                   clicks>>

\* signal.emit() for each of ev in turn.  The slots are methods of the
\* window, which lives on the emitting thread: each slot runs inside its
\* emit(), so the slots run in the order of the emissions.  The lambda
\* connected to operation_finished is taken to run inside emit() as well.
Emit(log, ev) == log \o ev

\* operation_finished emitted ahead of the signals of the outcome.
ReturnFinishedFirst(f, ev) ==
    /\ ui_enabled' = set_ui_state("enabled")
    /\ stack' = Pop
    /\ done' = << [op |-> f.op, url |-> f.url, info |-> f.info,
                   ev |-> Emit(Emit(f.ev, <<Finished>>), ev)] >>

\* The finally block of fetch_video_info and download_video: emits
\* operation_finished, whose slot re-enables the widgets, and returns.
ReturnFinally(f, ev) ==
    /\ ui_enabled' = set_ui_state("enabled")
    /\ stack' = Pop
    /\ done' = << [op |-> f.op, url |-> f.url, info |-> f.info,
                   ev |-> Emit(Emit(f.ev, ev), <<Finished>>)] >>

\* extract_info returns inside fetch_video_info.  On success info_fetched
\* runs _display_video_info, which calls download_thumbnail when the info
\* has a thumbnail URL; on any exception info_error runs _on_info_error,
\* which opens a QMessageBox.
ExtractInfoReturns(ok, thumbnail) ==
    /\ stack # <<>>
    /\ Top.op = "fetch_video_info" /\ Top.pc = "extract_info"
    /\ IF ok
       THEN /\ current_video_info' =
                 << [url |-> Top.url, webpage_url |-> WebpageUrl(Top.url),
                     thumbnail |-> thumbnail] >>
            /\ IF thumbnail
               THEN /\ stack' = ReplaceTop([Top EXCEPT !.pc = "urlopen",
                                    !.ev = Emit(@, <<Ev("info_fetched", 0)>>)])
                    /\ done' = <<>>
                    /\ UNCHANGED ui_enabled
               ELSE ReturnFinally(Top, <<Ev("info_fetched", 0)>>)
            /\ last' = Other
       ELSE /\ thumbnail = FALSE
            /\ stack' = ReplaceTop([Top EXCEPT !.pc = "info_notice",
                                    !.ev = Emit(@, <<Ev("info_error", 0)>>)])
            /\ last' = Other
            /\ done' = <<>>
            /\ UNCHANGED <<current_video_info, ui_enabled>>
    /\ UNCHANGED <<url_text, output_path, dirs, timer_left, progress_bar,
                   progress_label, clicks, burst>>

\* urlopen / image decoding returns inside download_thumbnail; control
\* then unwinds through _display_video_info to the finally block.
download_thumbnail(ok) ==
    /\ stack # <<>>
    /\ Top.op = "fetch_video_info" /\ Top.pc = "urlopen"
    /\ ReturnFinally(Top, IF ok THEN <<Ev("thumbnail_loaded", 0), LogInfo>>
                                ELSE <<LogError, Ev("thumbnail_error", 0)>>)
    /\ last' = Other
    /\ UNCHANGED <<url_text, output_path, dirs, current_video_info, timer_left,
                   progress_bar, progress_label, clicks, burst>>

\* ------------------------------------------------------------ download

\* Strings are sequences of characters.  The characters a quality text is
\* made of here, and the text of the first item of quality_dropdown.
Digits == {"0", "2", "7"}
Chars  == Digits \cup {"p", "x", "-", " "}
Best   == <<"B", "e", "s", "t">>

\* The file formats of format_dropdown.
formats == {"mp4", "mkv", "webm", "mp3"}

\* quality without the removal of the letter p.
StrReplaceNothing(str, char) == str

\* str.replace(char, ''): every occurrence is removed.
StrReplace(str, char) == SelectSeq(str, LAMBDA c : c # char)

\* str.strip(), which int() applies to its argument.
RECURSIVE LStrip(_)
LStrip(str) == IF str # <<>> /\ Head(str) = " " THEN LStrip(Tail(str)) ELSE str

RECURSIVE RStrip(_)
RStrip(str) ==
    IF str # <<>> /\ str[Len(str)] = " "
    THEN RStrip(SubSeq(str, 1, Len(str) - 1)) ELSE str

DigitValue(c) == CASE c = "0" -> 0 [] c = "2" -> 2 [] c = "7" -> 7

RECURSIVE Decimal(_)
Decimal(digits) ==
    IF digits = <<>> THEN 0
    ELSE 10 * Decimal(SubSeq(digits, 1, Len(digits) - 1))
         + DigitValue(digits[Len(digits)])

\* int(str): <<the integer>>, or <<>> where int() raises ValueError.  The
\* text may have blanks around it and a sign in front; leading zeros count
\* for nothing.
int(str) ==
    LET text   == RStrip(LStrip(str))
        signed == text # <<>> /\ Head(text) = "-"
        digits == IF signed THEN Tail(text) ELSE text
    IN IF digits # <<>> /\ \A i \in 1..Len(digits) : digits[i] \in Digits
       THEN << IF signed THEN 0 - Decimal(digits) ELSE Decimal(digits) >>
       ELSE <<>>

\* The value of ydl_opts['format']: the text, and the height_int the
\* f-string puts into it.
BestAudio      == << "bestaudio/best", <<>> >>
Unrestricted   == << "bestvideo*+bestaudio/best", <<>> >>
UpToHeight(height_int) == << "bestvideo[height<=H]+bestaudio/best", <<height_int>> >>

\* height_int of download_video, <<>> after ValueError.
HeightInt(quality) == int(StrReplace(quality, "p"))

\* format_selector of download_video.
format_selector(file_format, quality) ==
    IF file_format = "mp3" THEN BestAudio
    ELSE IF quality = Best THEN Unrestricted
    ELSE IF HeightInt(quality) # <<>> THEN UpToHeight(HeightInt(quality)[1])
    ELSE Unrestricted

\* The log_message of the except ValueError branch.
SelectorEvents(file_format, quality) ==
    IF file_format # "mp3" /\ quality # Best /\ HeightInt(quality) = <<>>
    THEN <<LogWarning>> ELSE <<>>

\* The log_message of the embed_metadata branch.
EmbedEvents(embed_metadata, video_info) ==
    IF ~embed_metadata THEN <<>>
    ELSE IF video_info # <<>> /\ video_info[1].thumbnail THEN <<LogInfo>>
    ELSE <<LogWarning>>

\* What download_video emits before it calls ydl.download(): the signals of
\* the two branches above and the "Starting download" log_message.
StartEvents(file_format, quality, embed_metadata, video_info) ==
    Emit(Emit(SelectorEvents(file_format, quality),
              EmbedEvents(embed_metadata, video_info)), <<LogInfo>>)


\* A download_video call has not returned yet.
Downloading == \E i \in 1..Len(stack) : stack[i].op = "download_video"

\* The user clicks download_button.  The click waits in the event queue of
\* the interactive thread until an event loop dispatches it.
ClickDownload ==
    /\ Len(clicks) < MaxClicks
    /\ clicks' = Append(clicks, [busy |-> Downloading])
    /\ done' = <<>>
    /\ last' = Other
    /\ UNCHANGED <<url_text, output_path, dirs, current_video_info, timer_left,
                   ui_enabled, progress_bar, progress_label, stack, burst>>

\* The user leaves format_dropdown, quality_dropdown and
\* embed_metadata_check as _load_initial_ui_settings sets them without a
\* settings file.
format_dropdown      == "mp4"
quality_dropdown     == Best
embed_metadata_check == FALSE

\* _start_download_worker without the _is_valid_youtube_url check.
RejectionNoShapeCheck(url, path, mkdir_ok) ==
    CASE url = UrlEmpty                                -> "empty_url"
      [] url # UrlEmpty /\ path = PathEmpty            -> "empty_path"
      [] url # UrlEmpty /\ path # PathEmpty
         /\ path \notin dirs /\ ~mkdir_ok              -> "mkdir_failed"
      [] OTHER                                         -> ""

\* Why _start_download_worker returns before dispatching, "" if it does not.
Rejection(url, path, mkdir_ok) ==
    CASE url = UrlEmpty                                -> "empty_url"
      [] url # UrlEmpty /\ path = PathEmpty            -> "empty_path"
      [] url # UrlEmpty /\ path # PathEmpty
         /\ ~_is_valid_youtube_url(url)                -> "invalid_url"
      [] _is_valid_youtube_url(url) /\ path # PathEmpty
         /\ path \notin dirs /\ ~mkdir_ok              -> "mkdir_failed"
      [] OTHER                                         -> ""

\* download_button.clicked -> _start_download_worker().
_start_download_worker(mkdir_ok) ==
    LET why == Rejection(url_text, output_path, mkdir_ok) IN
    IF why # ""
    THEN /\ stack' = Append(stack, Frame("notice", "reject_notice", url_text,
                                         <<>>, <<>>))
         /\ last' = Handled("_start_download_worker", why)
         /\ UNCHANGED <<dirs, ui_enabled, progress_bar, progress_label>>
    ELSE /\ dirs' = dirs \cup {output_path}
         /\ ui_enabled' = set_ui_state("disabled")
         /\ progress_bar' = 0
         /\ progress_label' = 0
         /\ stack' = Append(stack, Frame("download_video", "download", url_text,
                                current_video_info,
                                StartEvents(format_dropdown, quality_dropdown,
                                            embed_metadata_check,
                                            current_video_info)))
         /\ last' = Handled("_start_download_worker", "dispatched")

\* An event loop takes a click from the queue.  A disabled button ignores
\* it, and so does the window while a modal QMessageBox is open.
DispatchClick(mkdir_ok) ==
    /\ clicks # <<>>
    /\ LoopFree
    /\ clicks' = Tail(clicks)
    /\ IF TopLevel /\ ui_enabled
       THEN _start_download_worker(mkdir_ok)
       ELSE /\ last' = Handled("clicked", "ignored")
            /\ UNCHANGED <<dirs, ui_enabled, progress_bar, progress_label, stack>>
    /\ done' = <<>>
    /\ UNCHANGED <<url_text, output_path, current_video_info, timer_left, burst>>

\* (d, t) for which the double (d / t) * 100 lies just below the integer
\* 100 * d / t, so that int() yields one less (t < 60, d <= 2 * t).
FloatBelow == { <<23, 20>>, <<29, 25>>, <<46, 40>>, <<29, 50>>, <<57, 50>>,
                <<58, 50>> }

\* int((downloaded_bytes / total_bytes) * 100)
IntPercent(downloaded_bytes, total_bytes) ==
    IF <<downloaded_bytes, total_bytes>> \in FloatBelow
    THEN (100 * downloaded_bytes) \div total_bytes - 1
    ELSE (100 * downloaded_bytes) \div total_bytes

\* d.get('total_bytes') or d.get('total_bytes_estimate') or 1
TotalOfOrOne(total_bytes, total_bytes_estimate) ==
    IF total_bytes # 0 THEN total_bytes
    ELSE IF total_bytes_estimate # 0 THEN total_bytes_estimate ELSE 1

\* d.get('total_bytes') or d.get('total_bytes_estimate'); 0 is an absent key.
TotalOf(total_bytes, total_bytes_estimate) ==
    IF total_bytes # 0 THEN total_bytes ELSE total_bytes_estimate

\* _progress_hook logging before it reports the percentage.
_progress_hookLogFirst(status, downloaded_bytes, total_bytes, total_bytes_estimate) ==
    CASE status = "downloading" ->
           IF TotalOf(total_bytes, total_bytes_estimate) # 0
           THEN << Percent(IntPercent(downloaded_bytes,
                                      TotalOf(total_bytes, total_bytes_estimate))) >>
           ELSE <<>>
      [] status = "finished" -> << LogInfo, Percent(100) >>
      [] status = "error"    -> << Ev("download_error", 0) >>
      [] OTHER               -> <<>>

\* The signals _progress_hook emits for one callback.
_progress_hook(status, downloaded_bytes, total_bytes, total_bytes_estimate) ==
    CASE status = "downloading" ->
           IF TotalOf(total_bytes, total_bytes_estimate) # 0
           THEN << Percent(IntPercent(downloaded_bytes,
                                      TotalOf(total_bytes, total_bytes_estimate))) >>
           ELSE <<>>
      [] status = "finished" -> << Percent(100), LogInfo >>
      [] status = "error"    -> << Ev("download_error", 0) >>
      [] OTHER               -> <<>>

\* _update_progress(percent): QProgressBar.setValue ignores a value outside
\* its range 0..100; the label shows the number as it is.
SetValue(bar, percent) == IF percent \in 0..100 THEN percent ELSE bar

\* The widgets after the slots of a list of emitted signals have run.
RECURSIVE BarAfter(_, _)
BarAfter(bar, ev) ==
    IF ev = <<>> THEN bar
    ELSE BarAfter(IF Head(ev)[1] = "progress_update" THEN SetValue(bar, Head(ev)[2])
                  ELSE bar, Tail(ev))

RECURSIVE LabelAfter(_, _)
LabelAfter(label, ev) ==
    IF ev = <<>> THEN label
    ELSE LabelAfter(IF Head(ev)[1] = "progress_update" THEN Head(ev)[2] ELSE label,
                    Tail(ev))

Statuses == {"downloading", "finished", "error"}

\* yt-dlp calls the progress hook inside ydl.download().  download_error
\* runs _on_download_error, which opens a QMessageBox.
ProgressCallback(status, downloaded_bytes, total_bytes, total_bytes_estimate) ==
    /\ stack # <<>>
    /\ Top.op = "download_video" /\ Top.pc = "download"
    /\ Top.hooks < MaxHooks
    /\ status # "downloading" =>
          downloaded_bytes = 0 /\ total_bytes = 0 /\ total_bytes_estimate = 0
    /\ LET ev == _progress_hook(status, downloaded_bytes, total_bytes,
                                total_bytes_estimate)
       IN /\ progress_bar' = BarAfter(progress_bar, ev)
          /\ progress_label' = LabelAfter(progress_label, ev)
          /\ stack' = ReplaceTop([Top EXCEPT
                         !.ev = Emit(@, ev), !.hooks = @ + 1,
                         !.pc = IF status = "error" THEN "hook_notice" ELSE @])
    /\ last' = Other
    /\ done' = <<>>
    /\ UNCHANGED <<url_text, output_path, dirs, current_video_info, timer_left,
                   ui_enabled, clicks, burst>>

\* ydl.download() returns or raises inside download_video.
DownloadReturns(ok) ==
    /\ stack # <<>>
    /\ Top.op = "download_video" /\ Top.pc = "download"
    /\ IF ok
       THEN /\ ReturnFinally(Top, <<Ev("download_complete", 0)>>)
            /\ progress_bar' = 100
            /\ progress_label' = 100
            /\ last' = Other
       ELSE /\ stack' = ReplaceTop([Top EXCEPT !.pc = "download_notice",
                                    !.ev = Emit(@, <<Ev("download_error", 0)>>)])
            /\ last' = Other
            /\ done' = <<>>
            /\ UNCHANGED <<ui_enabled, progress_bar, progress_label>>
    /\ UNCHANGED <<url_text, output_path, dirs, current_video_info, timer_left,
                   clicks, burst>>

\* The user dismisses the QMessageBox on top; the slot that opened it
\* returns to its caller.
NoticeClosed ==
    /\ InNotice
    /\ CASE Top.pc = "info_notice" ->
              /\ current_video_info' = clear_preview
              /\ ReturnFinally(Top, <<>>)
         [] Top.pc = "download_notice" ->
              /\ ReturnFinally(Top, <<>>)
              /\ UNCHANGED current_video_info
         [] Top.pc = "hook_notice" ->
              /\ stack' = ReplaceTop([Top EXCEPT !.pc = "download"])
              /\ done' = <<>>
              /\ UNCHANGED <<current_video_info, ui_enabled>>
         [] Top.pc = "reject_notice" ->
              /\ stack' = Pop
              /\ done' = <<>>
              /\ UNCHANGED <<current_video_info, ui_enabled>>
    /\ last' = Other
    /\ UNCHANGED <<url_text, output_path, dirs, timer_left, progress_bar,
                   progress_label, clicks, burst>>

Next ==
    \/ \E text \in UrlTexts : UrlEdited(text)
    \/ \E path \in Paths : OutputEdited(path)
    \/ clear_fields
    \/ Tick
    \/ _start_fetch_info_worker
    \/ \E ok \in BOOLEAN, thumbnail \in BOOLEAN : ExtractInfoReturns(ok, thumbnail)
    \/ \E ok \in BOOLEAN : download_thumbnail(ok)
    \/ ClickDownload
    \/ \E mkdir_ok \in BOOLEAN : DispatchClick(mkdir_ok)
    \/ \E status \in Statuses, d \in 0..MaxBytes, t \in {0, KnownTotal},
          e \in {0, KnownTotal} : ProgressCallback(status, d, t, e)
    \/ \E ok \in BOOLEAN : DownloadReturns(ok)
    \/ NoticeClosed

Spec == Init /\ [][Next]_vars

\* Every collaborator call returns or raises (yt-dlp and urlopen work with
\* socket timeouts), and the user dismisses every notice.
Fairness ==
    /\ WF_vars(\E ok \in BOOLEAN, thumbnail \in BOOLEAN : ExtractInfoReturns(ok, thumbnail))
    /\ WF_vars(\E ok \in BOOLEAN : download_thumbnail(ok))
    /\ WF_vars(\E ok \in BOOLEAN : DownloadReturns(ok))
    /\ WF_vars(NoticeClosed)

FairSpec == Spec /\ Fairness

\* ------------------------------------------- calls with any arguments

\* The quality texts of up to n characters.
RECURSIVE Strings(_)
Strings(n) ==
    IF n = 0 THEN { <<>> }
    ELSE Strings(n - 1) \cup
         { Append(str, c) : str \in { t \in Strings(n - 1) : Len(t) = n - 1 },
                            c \in Chars }

Qualities == {Best} \cup Strings(MaxLabel)

\* What current_video_info can hold when download_video is called.
VideoInfos ==
    { <<>> } \cup
    { << [url |-> UrlLong, webpage_url |-> UrlLong, thumbnail |-> thumbnail] >> :
        thumbnail \in BOOLEAN }

\* Labels of host names, and the hosts of n labels.
HostLabels ==
    { <<"youtube">>, <<"com">>, <<"youtu">>, <<"be">>, <<"www">>, <<"m">>,
      <<"evil">>, <<"not", "youtube">> }

RECURSIVE HostsOf(_)
HostsOf(n) ==
    IF n = 0 THEN { <<>> }
    ELSE IF n = 1 THEN HostLabels
    ELSE { host \o <<".">> \o label : host \in HostsOf(n - 1), label \in HostLabels }

\* The dictionaries yt-dlp gives the progress hook; 0 is an absent key.
HookDicts ==
    { [status |-> "downloading", downloaded_bytes |-> downloaded_bytes,
       total_bytes |-> total_bytes, total_bytes_estimate |-> total_bytes_estimate] :
        downloaded_bytes \in 0..MaxBytes, total_bytes \in {0, KnownTotal},
        total_bytes_estimate \in {0, KnownTotal} }
    \cup { [status |-> status, downloaded_bytes |-> 0, total_bytes |-> 0,
            total_bytes_estimate |-> 0] : status \in {"finished", "error"} }

\* <<progress_bar.value(), the number in progress_label>> when a callback
\* arrives: as set by _start_download_worker, or by earlier callbacks.
Shown == { <<0, 0>>, <<50, 50>>, <<100, 100>>, <<100, 150>> }

\* A method called with args that has not run yet.
Called(op, args) ==
    [op |-> op, pc |-> "called", thread |-> DirectCall(GuiThread, WorkerThread),
     args |-> args, ev |-> <<>>, result |-> <<>>]

\* download_video or _is_valid_youtube_url is called on the window as it
\* is after construction, with any arguments.
CallInit ==
    /\ url_text = UrlEmpty
    /\ output_path = script_dir
    /\ dirs = {script_dir}
    /\ current_video_info = <<>>
    /\ timer_left = Inactive
    /\ ui_enabled = TRUE
    /\ clicks = <<>>
    /\ last = Other
    /\ done = <<>>
    /\ burst = NoBurst
    /\ \/ /\ progress_bar = 0
          /\ progress_label = 0
          /\ \E file_format \in formats, quality \in Qualities,
                embed_metadata \in BOOLEAN, video_info \in VideoInfos :
                stack = << Called("download_video",
                             [file_format |-> file_format, quality |-> quality,
                              embed_metadata |-> embed_metadata,
                              video_info |-> video_info]) >>
       \/ /\ progress_bar = 0
          /\ progress_label = 0
          /\ \E valid \in BOOLEAN, n \in 0..MaxHostLabels : \E host \in HostsOf(n) :
                stack = << Called("_is_valid_youtube_url",
                                  [url |-> Url(valid, host, "/watch?v=x")]) >>
       \/ \E d \in HookDicts, shown \in Shown :
             /\ progress_bar = shown[1]
             /\ progress_label = shown[2]
             /\ stack = << Called("_progress_hook",
                                  [d |-> d, bar |-> shown[1], label |-> shown[2]]) >>

\* download_video runs up to its call of ydl.download().
download_video_begin ==
    /\ Top.op = "download_video" /\ Top.pc = "called"
    /\ stack' = << [Top EXCEPT
                      !.pc = "download",
                      !.ev = StartEvents(Top.args.file_format, Top.args.quality,
                                         Top.args.embed_metadata, Top.args.video_info),
                      !.result = << format_selector(Top.args.file_format,
                                                    Top.args.quality) >>] >>
    /\ UNCHANGED <<url_text, output_path, dirs, current_video_info, timer_left,
                   ui_enabled, progress_bar, progress_label, clicks, last, done,
                   burst>>

\* _is_valid_youtube_url returns.
is_valid_youtube_url_returns ==
    /\ Top.op = "_is_valid_youtube_url" /\ Top.pc = "called"
    /\ stack' = << [Top EXCEPT !.pc = "returned",
                               !.result = << _is_valid_youtube_url(Top.args.url) >>] >>
    /\ UNCHANGED <<url_text, output_path, dirs, current_video_info, timer_left,
                   ui_enabled, progress_bar, progress_label, clicks, last, done,
                   burst>>

\* _progress_hook(d) returns; the slots of its signals have run.
progress_hook_returns ==
    /\ Top.op = "_progress_hook" /\ Top.pc = "called"
    /\ LET ev == _progress_hook(Top.args.d.status, Top.args.d.downloaded_bytes,
                                Top.args.d.total_bytes, Top.args.d.total_bytes_estimate)
       IN /\ progress_bar' = BarAfter(progress_bar, ev)
          /\ progress_label' = LabelAfter(progress_label, ev)
          /\ stack' = << [Top EXCEPT !.pc = "returned", !.ev = Emit(@, ev)] >>
    /\ UNCHANGED <<url_text, output_path, dirs, current_video_info, timer_left,
                   ui_enabled, clicks, last, done, burst>>

CallNext ==
    \/ download_video_begin
    \/ is_valid_youtube_url_returns
    \/ progress_hook_returns

CallSpec == CallInit /\ [][CallNext]_vars

\* =============================================================== claims

Runs == {"fetch_video_info", "download_video"}

\* Calls of fetch_video_info / download_video that have not returned.
InFlight == Cardinality({i \in 1..Len(stack) : stack[i].op \in Runs})

Idle == InFlight = 0

Signals(ev) == {ev[i][1] : i \in 1..Len(ev)}

Returned(op) == done # <<>> /\ done[1].op = op

\* The step is the timeout of the debounce timer.
TimeoutStep == burst'.fires = burst.fires + 1

\* The step dispatches a click to _start_download_worker.
ClickStep == Len(clicks') < Len(clicks) /\ TopLevel /\ ui_enabled

\* C1: at most one fetch_video_info / download_video call is in flight at
\* any time: no run starts before the previous one has returned.
C1_SingleFlight == InFlight <= 1

\* C2: every download_video call returns, and when it has returned (its
\* operation_finished delivered, after download_complete or after
\* download_error) no operation is in flight and the widgets are enabled.
C2_DownloadTerminal ==
    /\ [](Returned("download_video") =>
            /\ Idle
            /\ ui_enabled
            /\ Signals(done[1].ev) \cap {"download_complete", "download_error"} # {})
    /\ (Downloading ~> Returned("download_video"))

C2_Witness ==
    /\ Returned("download_video")
    /\ "download_error" \in Signals(done[1].ev)
    /\ ui_enabled

\* C3: a click on Download made while a download_video call is in flight
\* is rejected: when it is dispatched nothing is started, so it never
\* leads to a second download_video call.
C3_BusyRejected ==
    [][ (clicks # <<>> /\ Head(clicks).busy /\ Len(clicks') < Len(clicks))
            => stack' = stack ]_vars

\* C4: no fetch_video_info / download_video / download_thumbnail call
\* executes on the interactive thread.
C4_OffInteractiveThread ==
    \A i \in 1..Len(stack) : stack[i].op \in Runs => stack[i].thread # GuiThread

\* C5: a run that has returned emitted operation_finished exactly once, as
\* its last signal (after the thumbnail signals of a successful fetch as
\* well), and a run still in flight has not emitted it.
C5_TerminalLast ==
    /\ done # <<>> =>
          LET ev == done[1].ev IN
          /\ ev[Len(ev)] = Finished
          /\ \A i \in 1..(Len(ev) - 1) : ev[i] # Finished
          /\ \A i \in 1..Len(ev) :
                ev[i][1] \in {"thumbnail_loaded", "thumbnail_error"}
                    => \E j \in 1..(i - 1) : ev[j][1] = "info_fetched"
    /\ \A i \in 1..Len(stack) : "operation_finished" \notin Signals(stack[i].ev)

C5_Witness ==
    /\ Returned("fetch_video_info")
    /\ "thumbnail_loaded" \in Signals(done[1].ev)

\* C6: the text changes made while the debounce timer runs cause one
\* timeout: the timer fires at most once per run, not before Interval ms
\* have passed since the last change, for the text of the last change, and
\* once the delay has passed no later change takes the place of the
\* timeout; a run of the timer that is over and was not cancelled has
\* fired exactly once.
C6_Debounce ==
    /\ [](/\ burst.fires <= 1
          /\ timer_left >= 0 => burst.fires = 0 /\ burst.n >= 1 /\ burst.text = url_text
          /\ timer_left = Inactive /\ burst.n >= 1 => burst.fires = 1)
    /\ [][ TimeoutStep =>
             /\ burst.age >= Interval
             /\ burst.text = url_text
             /\ \/ FetchSuppressed(burst.text) /\ stack' = stack
                \/ /\ ~FetchSuppressed(burst.text)
                   /\ stack'[Len(stack')].op = "fetch_video_info"
                   /\ stack'[Len(stack')].url = burst.text ]_vars
    /\ [][ timer_left = 0 => timer_left' = 0 \/ TimeoutStep \/ burst' = NoBurst ]_vars

C6_Witness ==
    /\ burst.n = MaxBurst
    /\ burst.fires = 1
    /\ stack # <<>> /\ Top.op = "fetch_video_info" /\ Top.url = burst.text

\* C7: a timeout while url_entry holds the webpage_url of the stored
\* metadata dispatches nothing and changes neither the metadata, nor the
\* operations in flight, nor the enabled flag.
C7_FetchIdempotent ==
    [][ (/\ TimeoutStep
         /\ current_video_info # <<>>
         /\ current_video_info[1].webpage_url = url_text)
            => UNCHANGED <<current_video_info, stack, ui_enabled>> ]_vars

C7_Witness ==
    /\ last = Handled("_start_fetch_info_worker", "suppressed")
    /\ current_video_info # <<>>
    /\ current_video_info[1].webpage_url = url_text

\* C8: the widgets are enabled exactly when no operation is in flight.
C8_UiEnabledIffIdle == ui_enabled <=> Idle

\* C9: a click dispatched while the URL is empty, the output directory is
\* empty, the URL is not a YouTube URL, or the missing output directory
\* cannot be created calls no download_video, leaves no operation in
\* flight, the widgets enabled and the progress display as it was; and
\* dismissing the notice of the rejection starts nothing either.
C9_SyncRejection ==
    /\ [][ (/\ ClickStep
             /\ \/ url_text = UrlEmpty
                \/ output_path = PathEmpty
                \/ ~_is_valid_youtube_url(url_text)
                \/ output_path \notin dirs')
                => /\ ~Downloading'
                   /\ Idle'
                   /\ ui_enabled'
                   /\ UNCHANGED <<progress_bar, progress_label>> ]_vars
    /\ [][ (InNotice /\ Top.pc = "reject_notice" /\ Len(stack') < Len(stack))
                => /\ ~Downloading'
                   /\ UNCHANGED <<ui_enabled, progress_bar, progress_label>> ]_vars

C9_Witness ==
    /\ last = Handled("_start_download_worker", "mkdir_failed")
    /\ InNotice /\ Top.pc = "reject_notice"
    /\ progress_label # 0

\* C10: every percent _progress_hook emits lies in 0..100.
C10_PercentInRange ==
    \A i \in 1..Len(stack) : \A k \in 1..Len(stack[i].ev) :
        stack[i].ev[k][1] = "progress_update" => stack[i].ev[k][2] \in 0..100

\* _progress_hook has returned from a call with the dictionary d.
HookReturned == stack # <<>> /\ Top.op = "_progress_hook" /\ Top.pc = "returned"

\* C11: a progress callback with status downloading that reports no total
\* (total_bytes and total_bytes_estimate both absent or zero) emits no
\* signal and leaves the progress bar and the progress label as they were,
\* whatever downloaded_bytes it reports.
C11_UnknownTotalSilent ==
    (/\ HookReturned
     /\ Top.args.d.status = "downloading"
     /\ Top.args.d.total_bytes = 0
     /\ Top.args.d.total_bytes_estimate = 0)
        => /\ Top.ev = <<>>
           /\ progress_bar = Top.args.bar
           /\ progress_label = Top.args.label

C11_Witness ==
    /\ HookReturned
    /\ Top.args.d.status = "downloading"
    /\ Top.args.d.total_bytes = 0 /\ Top.args.d.total_bytes_estimate = 0
    /\ Top.args.d.downloaded_bytes = MaxBytes
    /\ <<progress_bar, progress_label>> = <<50, 50>>

\* C12: a progress callback with status finished emits exactly two
\* signals, progress_update(100) and then an info log_message, so neither
\* download_error nor download_complete; the display shows 100 afterwards.
C12_FinishedTwoEvents ==
    (HookReturned /\ Top.args.d.status = "finished")
        => /\ Top.ev = <<Percent(100), LogInfo>>
           /\ progress_bar = 100
           /\ progress_label = 100

C12_Witness ==
    /\ HookReturned
    /\ Top.args.d.status = "finished"
    /\ Top.args.bar = 50
    /\ progress_bar = 100

\* download_video has built its options from the arguments it was called with.
OptsBuilt == stack # <<>> /\ Top.op = "download_video" /\ Top.pc = "download"
               /\ "args" \in DOMAIN Top

Warnings(ev) == Cardinality({ i \in 1..Len(ev) : ev[i] = LogWarning })

\* A quality text "<digits>p" and the number its digits denote.
HeightLabel(quality) ==
    /\ Len(quality) >= 2
    /\ quality[Len(quality)] = "p"
    /\ \A i \in 1..(Len(quality) - 1) : quality[i] \in Digits

RECURSIVE NumberOf(_, _)
NumberOf(acc, digits) ==
    IF digits = <<>> THEN acc
    ELSE NumberOf(10 * acc + DigitValue(Head(digits)), Tail(digits))

LabelHeight(quality) == NumberOf(0, SubSeq(quality, 1, Len(quality) - 1))

\* A quality text without any digit, or with a character that is neither
\* a digit, nor the letter p, nor a sign, nor a blank.
NoNumber(quality) ==
    \/ \A i \in 1..Len(quality) : quality[i] \notin Digits
    \/ \E i \in 1..Len(quality) : quality[i] \notin Digits \cup {"p", "-", " "}

\* The selector of every format and quality, as far as the warning.
SelectorOf(args, sel) ==
    /\ args.file_format = "mp3" => sel = BestAudio
    /\ args.file_format # "mp3" /\ args.quality = Best => sel = Unrestricted
    /\ args.file_format # "mp3" /\ HeightLabel(args.quality)
          => sel = UpToHeight(LabelHeight(args.quality))
    /\ args.file_format # "mp3" /\ args.quality # Best
          => \/ sel = Unrestricted
             \/ sel[1] = UpToHeight(0)[1] /\ Len(sel[2]) = 1

\* C13 as stated: the selector is bestaudio/best for mp3, whatever the
\* quality; bestvideo*+bestaudio/best for a video format with quality Best;
\* bestvideo[height<=H]+bestaudio/best for a quality "<H>p"; and for a
\* video format with a quality that has no number in it the unrestricted
\* selector, with exactly one warning among the signals emitted before the
\* download starts.
C13_SelectorOneWarning ==
    OptsBuilt =>
        /\ SelectorOf(Top.args, Top.result[1])
        /\ Top.args.file_format # "mp3" /\ Top.args.quality # Best
           /\ NoNumber(Top.args.quality)
              => Top.result[1] = Unrestricted /\ Warnings(Top.ev) = 1

\* C13, amended: the selector is as stated; a video format with a quality
\* that is not Best and from which no integer is read gets the unrestricted
\* selector and one warning about the quality, emitted first; every other
\* call emits no such warning; and one more warning follows in either case
\* when embed_metadata is set and no thumbnail URL is at hand, so the
\* signals before the download starts hold one warning or two.
C13_SelectorWarningFirst ==
    OptsBuilt =>
        LET args == Top.args
            sel == Top.result[1]
            noThumbnail == args.embed_metadata
                           /\ (args.video_info = <<>> \/ ~args.video_info[1].thumbnail)
            fallback == args.file_format # "mp3" /\ args.quality # Best
                        /\ sel = Unrestricted
        IN /\ SelectorOf(args, sel)
           /\ args.file_format # "mp3" /\ args.quality # Best /\ NoNumber(args.quality)
                 => fallback
           /\ fallback => Top.ev[1] = LogWarning
           /\ Warnings(Top.ev) = (IF fallback THEN 1 ELSE 0)
                                 + (IF noThumbnail THEN 1 ELSE 0)
           /\ Top.ev[Len(Top.ev)] = LogInfo

C13_Witness ==
    /\ OptsBuilt
    /\ Top.args.file_format = "mkv"
    /\ Top.args.quality = <<"x", "7", "p">>
    /\ Top.args.embed_metadata /\ Top.args.video_info = <<>>
    /\ Top.result = <<Unrestricted>>
    /\ Top.ev = <<LogWarning, LogWarning, LogInfo>>

\* _is_valid_youtube_url has returned.
UrlChecked == stack # <<>> /\ Top.op = "_is_valid_youtube_url" /\ Top.pc = "returned"

AllowedHosts ==
    { <<"youtube", ".", "com">>, <<"www", ".", "youtube", ".", "com">>,
      <<"m", ".", "youtube", ".", "com">>,
      <<"youtu", ".", "be">>, <<"www", ".", "youtu", ".", "be">> }

\* host is an allowed host, or some text, a dot and an allowed host.
HostAllowed(host) ==
    \E allowed \in AllowedHosts :
        \/ host = allowed
        \/ \E k \in 2..Len(host) :
              host[k] = "." /\ SubSeq(host, k + 1, Len(host)) = allowed

\* C14: _is_valid_youtube_url(s) is true exactly when s is a valid URL
\* whose host is one of youtube.com, www.youtube.com, m.youtube.com,
\* youtu.be, www.youtu.be or ends with a dot followed by one of them; so
\* youtube.com.evil.com and notyoutube.com are rejected and m.youtube.com
\* is accepted.
C14_UrlShape ==
    UrlChecked =>
        LET url == Top.args.url IN
        /\ Top.result[1] <=> (url.valid /\ HostAllowed(url.host))
        /\ url.host = <<"youtube", ".", "com", ".", "evil", ".", "com">>
              => ~Top.result[1]
        /\ url.host = <<"not", "youtube", ".", "com">> => ~Top.result[1]
        /\ url.valid /\ url.host = <<"m", ".", "youtube", ".", "com">>
              => Top.result[1]

C14_Witness ==
    /\ UrlChecked
    /\ Top.args.url.host = <<"evil", ".", "www", ".", "youtu", ".", "be">>
    /\ Top.result = <<TRUE>>

\* The step changes the text of url_entry.
EditStep == url_text' # url_text

\* C15: a change of the URL text to a text that fails the URL check stops
\* the debounce timer and clears the stored metadata in the same step, and
\* the timer does not fire while such a text stands; a change to a text
\* that passes the check starts the timer anew with the full delay and
\* leaves the stored metadata as it was.
C15_InvalidCancels ==
    /\ [][ EditStep =>
             IF _is_valid_youtube_url(url_text')
             THEN timer_left' = Interval /\ UNCHANGED current_video_info
             ELSE timer_left' = Inactive /\ current_video_info' = <<>> ]_vars
    /\ [][ TimeoutStep => _is_valid_youtube_url(url_text) /\ burst.text = url_text ]_vars
    /\ [](~_is_valid_youtube_url(url_text) => timer_left = Inactive)

C15_Witness ==
    /\ last = Handled("_schedule_fetch_info", "cancelled")
    /\ url_text = UrlOther
    /\ timer_left = Inactive
    /\ current_video_info = <<>>

\* C16: a timeout of the debounce timer while a fetch_video_info or
\* download_video call is in flight (its error notice included) does
\* nothing: it dispatches no fetch, does not clear the stored metadata and
\* does not change the enabled flag of the widgets.
C16_BusyTimeoutIgnored ==
    [][ (TimeoutStep /\ ~Idle)
            => UNCHANGED <<stack, current_video_info, ui_enabled>> ]_vars

\* download_thumbnail is running: the fetch on top waits in urlopen.
ThumbnailFetch == stack # <<>> /\ Top.pc = "urlopen"

Count(ev, signal) == Cardinality({ i \in 1..Len(ev) : ev[i][1] = signal })

\* C17: download_thumbnail starts only out of a fetch_video_info whose
\* extract_info returned an info with a thumbnail URL; that info is stored
\* in current_video_info by then; and when download_thumbnail returns,
\* having loaded the image or not, the stored info is kept, no operation is
\* in flight and the widgets are enabled.
C17_ThumbnailAfterInfo ==
    /\ [][ (ThumbnailFetch' /\ ~ThumbnailFetch)
             => /\ stack # <<>>
                /\ Top.op = "fetch_video_info" /\ Top.pc = "extract_info"
                /\ current_video_info' # <<>>
                /\ current_video_info'[1].thumbnail
                /\ current_video_info'[1].url = Top.url ]_vars
    /\ [](ThumbnailFetch =>
             /\ Top.op = "fetch_video_info"
             /\ current_video_info # <<>>
             /\ current_video_info[1].url = Top.url)
    /\ [][ (ThumbnailFetch /\ ~ThumbnailFetch')
             => /\ UNCHANGED current_video_info
                /\ Idle'
                /\ ui_enabled' ]_vars

\* C18: a fetch_video_info whose extract_info raised returns after one
\* info_error and no info_fetched; when it has returned no info is stored,
\* no operation is in flight, the widgets are enabled, and the debounce
\* timer is not running, so that no fetch follows before the URL text is
\* changed again.
C18_FetchFailure ==
    (Returned("fetch_video_info") /\ "info_fetched" \notin Signals(done[1].ev))
        => /\ Count(done[1].ev, "info_error") = 1
           /\ current_video_info = <<>>
           /\ Idle
           /\ ui_enabled
           /\ timer_left = Inactive

\* C19: a download_video call that has returned emitted exactly one of
\* download_complete and download_error, exactly once, whatever progress
\* callbacks it received and whether ydl.download() raised or not.
C19_OneOutcome ==
    Returned("download_video") =>
        Count(done[1].ev, "download_complete") + Count(done[1].ev, "download_error") = 1

\* C20: the video_info given to a download_video call is absent or is the
\* info fetched for the URL of that call (the text it was fetched for, or
\* the webpage_url extract_info returned for it); so a download requested
\* after the text changed to another valid URL and before the new fetch
\* gets no info rather than the info of the earlier URL.
C20_FreshMetadata ==
    \A i \in 1..Len(stack) :
        (stack[i].op = "download_video" /\ stack[i].info # <<>>)
            => \/ stack[i].info[1].url = stack[i].url
               \/ stack[i].info[1].webpage_url = stack[i].url

====
